---- MODULE Spec2Model ----
(***************************************************************************)
(* Model of imap-notify.py: configuration loading (read_configuration,     *)
(* get_encryption, get_port, get_password), session establishment          *)
(* (connect) and the retry / wait loop (wait_for_change) driven by main.   *)
(*                                                                         *)
(* Strings of the configuration file are sequences of one-character        *)
(* strings, so that int(), str(), rstrip() and getboolean() are computed   *)
(* rather than assumed.                                                    *)
(***************************************************************************)
EXTENDS Integers, Sequences, FiniteSets, TLC

(* ------------------------------------------------------------------ *)
(* Bounds of the model                                                 *)
(* ------------------------------------------------------------------ *)

\* connection attempts explored in one run of wait_for_change
MaxAttempts == 10

(* ------------------------------------------------------------------ *)
(* Python values                                                       *)
(* ------------------------------------------------------------------ *)

\* Python's None, as returned by section.get(key, None)
None == <<"None">>

\* truthiness of an Optional[str]: None and "" are falsy
Truthy(v) == v # None /\ v # <<>>

Ok(v) == [ok |-> TRUE, val |-> v]

Raise(e) == [ok |-> FALSE, exc |-> e]

Min(a, b) == IF a < b THEN a ELSE b

Max(a, b) == IF a > b THEN a ELSE b

(* ------------------------------------------------------------------ *)
(* configparser                                                        *)
(* ------------------------------------------------------------------ *)

\* section.get(key, fallback)
Get(section, key, fallback) ==
    IF key \in DOMAIN section THEN section[key] ELSE fallback

TrueStrings ==
    { <<"1">>, <<"y", "e", "s">>, <<"t", "r", "u", "e">>, <<"o", "n">> }

FalseStrings ==
    { <<"0">>, <<"n", "o">>, <<"f", "a", "l", "s", "e">>, <<"o", "f", "f">> }

\* section.getboolean(key, fallback=...): ValueError on a value that is
\* not one of configparser's boolean spellings
GetBoolean(section, key, fallback) ==
    IF key \notin DOMAIN section THEN Ok(fallback)
    ELSE IF section[key] \in TrueStrings THEN Ok(TRUE)
    ELSE IF section[key] \in FalseStrings THEN Ok(FALSE)
    ELSE Raise("ValueError")

(* ------------------------------------------------------------------ *)
(* int() and str()                                                     *)
(* ------------------------------------------------------------------ *)

Digits == {"0", "1", "2", "3", "4", "5", "6", "7", "8", "9"}

DigitVal(c) ==
    CASE c = "0" -> 0 [] c = "1" -> 1 [] c = "2" -> 2 [] c = "3" -> 3
      [] c = "4" -> 4 [] c = "5" -> 5 [] c = "6" -> 6 [] c = "7" -> 7
      [] c = "8" -> 8 [] c = "9" -> 9

DigitChar(d) ==
    CASE d = 0 -> "0" [] d = 1 -> "1" [] d = 2 -> "2" [] d = 3 -> "3"
      [] d = 4 -> "4" [] d = 5 -> "5" [] d = 6 -> "6" [] d = 7 -> "7"
      [] d = 8 -> "8" [] d = 9 -> "9"

RECURSIVE DigitsVal(_)
DigitsVal(s) ==
    IF s = <<>> THEN 0
    ELSE 10 * DigitsVal(SubSeq(s, 1, Len(s) - 1)) + DigitVal(s[Len(s)])

AllDigits(s) == s # <<>> /\ \A i \in 1..Len(s) : s[i] \in Digits

\* int(raw): an optional sign followed by decimal digits, else ValueError
ParseInt(raw) ==
    IF raw # <<>> /\ raw[1] \in {"-", "+"}
    THEN IF AllDigits(Tail(raw))
         THEN Ok(IF raw[1] = "-" THEN 0 - DigitsVal(Tail(raw))
                 ELSE DigitsVal(Tail(raw)))
         ELSE Raise("ValueError")
    ELSE IF AllDigits(raw) THEN Ok(DigitsVal(raw))
    ELSE Raise("ValueError")

\* str(n) for n >= 0
RECURSIVE Str(_)
Str(n) ==
    IF n < 10 THEN <<DigitChar(n)>>
    ELSE Append(Str(n \div 10), DigitChar(n % 10))

(* ------------------------------------------------------------------ *)
(* str.rstrip()                                                        *)
(* ------------------------------------------------------------------ *)

Whitespace == {" ", "\n", "\t", "\r"}

RECURSIVE RStrip(_)
RStrip(s) ==
    IF s # <<>> /\ s[Len(s)] \in Whitespace
    THEN RStrip(SubSeq(s, 1, Len(s) - 1))
    ELSE s

(* ------------------------------------------------------------------ *)
(* Program constants                                                   *)
(* ------------------------------------------------------------------ *)

\* range(1, 65535): the stop value of the accepted port range
PortRangeStop == 65535

\* default port handed to get_port when the encryption is IMAPS
ImapsDefaultPort == 993

\* default port handed to get_port otherwise
PlainDefaultPort == 143

\* ceiling of the retry delay, in seconds
BackoffCap == 120

\* timeout handed to select.select, in seconds
SelectTimeout == 60 * 15

(* ------------------------------------------------------------------ *)
(* Configuration loading                                               *)
(* ------------------------------------------------------------------ *)

\* mutant: the mutual exclusion is not checked, the command wins
get_password_NoExclusion(section, process) ==
    LET password == Get(section, "password", None)
        password_cmd == Get(section, "password_command", None)
    IN  IF Truthy(password_cmd)
        THEN IF process.returncode # 0
             THEN Raise("ConfigError")
             ELSE Ok(RStrip(process.stdout))
        ELSE IF ~Truthy(password)
        THEN Raise("ConfigError")
        ELSE Ok(password)

\* get_password(section); process is the result subprocess.run gives
\* when the password command is executed
get_password(section, process) ==
    LET password == Get(section, "password", None)
        password_cmd == Get(section, "password_command", None)
    IN  IF Truthy(password) /\ Truthy(password_cmd)
        THEN Raise("ConfigError")
        ELSE IF Truthy(password_cmd)
        THEN IF process.returncode # 0
             THEN Raise("ConfigError")
             ELSE Ok(RStrip(process.stdout))
        ELSE IF ~Truthy(password)
        THEN Raise("ConfigError")
        ELSE Ok(password)

\* whether get_password reaches subprocess.run
RunsPasswordCommand(section) ==
    LET password == Get(section, "password", None)
        password_cmd == Get(section, "password_command", None)
    IN  ~(Truthy(password) /\ Truthy(password_cmd)) /\ Truthy(password_cmd)

\* mutant: starttls falls back to False instead of `not imaps`
get_encryption_FallbackFalse(section) ==
    LET imaps == GetBoolean(section, "imaps", FALSE)
    IN  IF ~imaps.ok THEN imaps
        ELSE LET starttls == GetBoolean(section, "starttls", FALSE)
             IN  IF ~starttls.ok THEN starttls
                 ELSE IF starttls.val /\ imaps.val THEN Raise("ImapError")
                 ELSE IF imaps.val THEN Ok("IMAPS")
                 ELSE IF starttls.val THEN Ok("STARTTLS")
                 ELSE Ok("NONE")

\* mutant: the conflict of the two flags is not rejected
get_encryption_NoConflict(section) ==
    LET imaps == GetBoolean(section, "imaps", FALSE)
    IN  IF ~imaps.ok THEN imaps
        ELSE LET starttls == GetBoolean(section, "starttls", ~imaps.val)
             IN  IF ~starttls.ok THEN starttls
                 ELSE IF imaps.val THEN Ok("IMAPS")
                 ELSE IF starttls.val THEN Ok("STARTTLS")
                 ELSE Ok("NONE")

get_encryption(section) ==
    LET imaps == GetBoolean(section, "imaps", FALSE)
    IN  IF ~imaps.ok THEN imaps
        ELSE LET starttls == GetBoolean(section, "starttls", ~imaps.val)
             IN  IF ~starttls.ok THEN starttls
                 ELSE IF starttls.val /\ imaps.val THEN Raise("ImapError")
                 ELSE IF imaps.val THEN Ok("IMAPS")
                 ELSE IF starttls.val THEN Ok("STARTTLS")
                 ELSE Ok("NONE")

\* mutant: range(1, 65536), port 65535 is accepted
get_port_Inclusive(section, default_port) ==
    LET raw_port == Get(section, "port", Str(default_port))
        port == ParseInt(raw_port)
    IN  IF ~port.ok THEN Raise("UnboundLocalError")
        ELSE IF port.val \notin 1..PortRangeStop THEN Raise("ImapError")
        ELSE Ok(port.val)

\* get_port(section, default_port).  When int() raises ValueError the
\* handler formats its message with the local `port`, which was never
\* bound: building the ImapError raises UnboundLocalError instead.
get_port(section, default_port) ==
    LET raw_port == Get(section, "port", Str(default_port))
        port == ParseInt(raw_port)
    IN  IF ~port.ok THEN Raise("UnboundLocalError")
        ELSE IF port.val \notin 1..(PortRangeStop - 1) THEN Raise("ImapError")
        ELSE Ok(port.val)

\* the default port read_configuration passes to get_port
DefaultPort(encryption) ==
    IF encryption = "IMAPS" THEN ImapsDefaultPort ELSE PlainDefaultPort

\* read_configuration(path); parser is what ConfigParser.read produced
read_configuration(parser, process) ==
    IF "imap" \notin DOMAIN parser THEN Raise("ConfigError")
    ELSE
    LET imap == parser["imap"]
        host == Get(imap, "host", None)
        username == Get(imap, "username", None)
        encryption == get_encryption(imap)
        port == get_port(imap, DefaultPort(encryption.val))
        password == get_password(imap, process)
        debug == GetBoolean(imap, "debug", FALSE)
    IN  IF ~Truthy(host) THEN Raise("ConfigError")
        ELSE IF ~Truthy(username) THEN Raise("ConfigError")
        ELSE IF ~encryption.ok THEN encryption
        ELSE IF ~port.ok THEN port
        ELSE IF ~password.ok THEN password
        ELSE IF ~debug.ok THEN debug
        ELSE Ok([host |-> host, port |-> port.val, username |-> username,
                 password |-> password.val, encryption |-> encryption.val,
                 debug |-> debug.val])

NotCalled == Raise("NotCalled")

\* the calls read_configuration makes before it returns or raises, each
\* with what it returned or raised
Calls(parser, process) ==
    LET imap == parser["imap"]
        entered == /\ "imap" \in DOMAIN parser
                   /\ Truthy(Get(imap, "host", None))
                   /\ Truthy(Get(imap, "username", None))
        encryption == IF entered THEN get_encryption(imap) ELSE NotCalled
        port == IF encryption.ok
                THEN get_port(imap, DefaultPort(encryption.val))
                ELSE NotCalled
        password == IF port.ok THEN get_password(imap, process) ELSE NotCalled
    IN  [get_encryption |-> encryption, get_port |-> port,
         get_password |-> password]

(* ------------------------------------------------------------------ *)
(* Inputs: the configuration file and the environment                  *)
(* ------------------------------------------------------------------ *)

\* marks a key left out of the [imap] section
Absent == <<"absent">>

sTrue == <<"t", "r", "u", "e">>

sFalse == <<"f", "a", "l", "s", "e">>

Hosts == {Absent, <<>>, <<"h">>}

Usernames == {Absent, <<>>, <<"u">>}

Flags == {Absent, sTrue, sFalse, <<"x">>}

RawPorts ==
    { Absent, <<"0">>, <<"1">>, <<"6", "5", "5", "3", "4">>,
      <<"6", "5", "5", "3", "5">>, <<"6", "5", "5", "3", "6">>,
      <<"-", "1">>, <<"x">> }

Passwords == {Absent, <<>>, <<"s">>}

PasswordCommands == {Absent, <<>>, <<"c">>}

DebugFlags == {Absent, sTrue, <<"x">>}

Keys ==
    { "host", "username", "imaps", "starttls", "port", "password",
      "password_command", "debug" }

\* the [imap] section holding exactly the keys that are not Absent
Section(all) == [k \in {x \in Keys : all[x] # Absent} |-> all[k]]

Sections ==
    { Section([host |-> h, username |-> u, imaps |-> i, starttls |-> t,
               port |-> p, password |-> pw, password_command |-> c,
               debug |-> d]) :
        h \in Hosts, u \in Usernames, i \in Flags, t \in Flags,
        p \in RawPorts, pw \in Passwords, c \in PasswordCommands,
        d \in DebugFlags }

\* a ConfigParser always holds DEFAULT; the file may lack [imap]
Parsers ==
    { [DEFAULT |-> <<>>] } \cup { [DEFAULT |-> <<>>, imap |-> s] : s \in Sections }

\* what subprocess.run can give for the password command
Processes ==
    [ returncode : {0, 1},
      stdout : { <<>>, <<"\n">>, <<"p", "\n">>, <<"p", " ", "q", " ", "\n">> } ]

\* outcomes of one step of connect: success, an OSError (socket.error,
\* ssl.SSLError, ...), or an imaplib.IMAP4.error / abort
StepOutcomes == {"ok", "OSError", "IMAP4.error"}

\* outcomes of the NOTIFY SET command: a tagged OK or NO response (BAD
\* is raised by imaplib as IMAP4.error), or a failure of the transport
NotifyOutcomes == {"OK", "NO", "OSError", "IMAP4.error"}

\* seconds after the start of select at which the socket becomes
\* readable; <<>> when it never does
ReadyTimes ==
    { <<>>, <<0>>, <<1>>, <<SelectTimeout - 1>>, <<SelectTimeout>>,
      <<SelectTimeout + 1>> }

(* ------------------------------------------------------------------ *)
(* State                                                               *)
(* ------------------------------------------------------------------ *)

VARIABLES
    pc,        \* position of the process
    parser,    \* the parsed configuration file
    process,   \* <<CompletedProcess>> of the password command, if run
    cmdRuns,   \* subprocess.run calls so far
    calls,     \* the calls read_configuration made, with their results
    result,    \* what read_configuration returned or raised
    backoff,   \* wait_for_change: backoff
    sleeps,    \* arguments of the time.sleep calls so far
    attempts,  \* imapclass(...) constructions so far
    wire,      \* steps taken on the connection of the last attempt
    unclosed,  \* sessions opened and not closed
    typ,       \* response type of NOTIFY SET
    selects,   \* the select.select calls so far: input and rlist
    out,       \* lines printed
    exc,       \* uncaught exception that ended the process, or "none"
    exitCode   \* <<status>> once the process has ended

vars ==
    << pc, parser, process, cmdRuns, calls, result, backoff, sleeps, attempts, wire,
       unclosed, typ, selects, out, exc, exitCode >>

NoCalls ==
    [get_encryption |-> NotCalled, get_port |-> NotCalled,
     get_password |-> NotCalled]

Init ==
    /\ pc = "main"
    /\ parser \in Parsers
    /\ process = <<>>
    /\ cmdRuns = 0
    /\ calls = NoCalls
    /\ result = NotCalled
    /\ backoff = 0
    /\ sleeps = <<>>
    /\ attempts = 0
    /\ wire = <<>>
    /\ unclosed = 0
    /\ typ = "none"
    /\ selects = <<>>
    /\ out = <<>>
    /\ exc = "none"
    /\ exitCode = <<>>

config == result.val

(* ------------------------------------------------------------------ *)
(* main                                                                *)
(* ------------------------------------------------------------------ *)

Line(stream, text, arg) == [stream |-> stream, text |-> text, arg |-> arg]

\* an exception nobody catches: traceback, interpreter exits with 1
Uncaught(e) ==
    /\ pc' = "crashed"
    /\ exc' = e
    /\ exitCode' = <<1>>

\* mutant: no sys.exit, main falls through to wait_for_change
AfterConfigError_FallThrough == "sleep"

\* main: where the except ConfigError branch ends, sys.exit(1)
AfterConfigError == "exit"

\* main: read_configuration; ConfigError is printed and exits with 1,
\* anything else raised is not caught; otherwise wait_for_change starts
\* with backoff = 0
Main ==
    /\ pc = "main"
    /\ \E p \in Processes :
        LET c == Calls(parser, p)
            ran == /\ c.get_password # NotCalled
                   /\ RunsPasswordCommand(parser["imap"])
            r == read_configuration(parser, p)
        IN  /\ process' = IF ran THEN <<p>> ELSE <<>>
            /\ cmdRuns' = IF ran THEN cmdRuns + 1 ELSE cmdRuns
            /\ calls' = c
            /\ result' = r
            /\ IF r.ok
               THEN /\ pc' = "sleep"
                    /\ UNCHANGED <<out, exc, exitCode>>
               ELSE IF r.exc = "ConfigError"
               THEN /\ out' = Append(out,
                                Line("stdout", "Error reading configuration", 0))
                    /\ pc' = AfterConfigError
                    /\ exitCode' = <<1>>
                    /\ UNCHANGED exc
               ELSE /\ Uncaught(r.exc)
                    /\ UNCHANGED out
    /\ backoff' = 0
    /\ UNCHANGED <<parser, sleeps, attempts, wire, unclosed, typ, selects>>

(* ------------------------------------------------------------------ *)
(* wait_for_change and connect                                         *)
(* ------------------------------------------------------------------ *)

\* mutant: the floor of 1 before doubling is lost
NextBackoff_NoFloor(b) == Min(BackoffCap, 2 * b)

Last(s) == s[Len(s)]

\* the backoff the except OSError branch computes
NextBackoff(b) == Min(BackoffCap, 2 * Max(1, b))

\* a step taken on the connection: what was called, with which
\* arguments, and how it ended
Sent(cmd, args, outcome) == [cmd |-> cmd, args |-> args, outcome |-> outcome]

\* a counter of the run, kept within the bound of the model
Count(n) == IF n < MaxAttempts THEN n + 1 ELSE n

\* the client a failing connect leaves behind is never closed by the
\* program: its socket stays open until the garbage collector finalises
\* the object, at once or not at all
Abandoned(n) == {n, n - 1}

\* time.sleep(backoff) at the top of the loop
Sleep ==
    /\ pc = "sleep"
    /\ Len(sleeps) < MaxAttempts
    /\ sleeps' = Append(sleeps, backoff)
    /\ pc' = "open"
    /\ UNCHANGED << parser, process, cmdRuns, calls, result, backoff, attempts, wire,
                    unclosed, typ, selects, out, exc, exitCode >>

\* mutant: the message is printed before the new backoff is computed
ExceptOSError_LogOld ==
    /\ backoff' = NextBackoff(backoff)
    /\ out' = Append(out, Line("stderr", "Could not connect to server",
                               backoff))
    /\ pc' = "sleep"
    /\ UNCHANGED <<exc, exitCode>>

\* mutant: once the delay has reached its ceiling the loop gives up
ExceptOSError_GiveUp ==
    /\ backoff' = NextBackoff(backoff)
    /\ out' = IF Len(out) < MaxAttempts
              THEN Append(out, Line("stderr", "Could not connect to server",
                                    NextBackoff(backoff)))
              ELSE out
    /\ pc' = IF backoff = BackoffCap THEN "done" ELSE "sleep"
    /\ UNCHANGED <<exc, exitCode>>

\* except OSError around connect(config): new backoff, message on
\* stderr, continue
ExceptOSError ==
    /\ backoff' = NextBackoff(backoff)
    /\ out' = IF Len(out) < MaxAttempts
              THEN Append(out, Line("stderr", "Could not connect to server",
                                    NextBackoff(backoff)))
              ELSE out
    /\ pc' = "sleep"
    /\ UNCHANGED <<exc, exitCode>>

\* mutant: no except clause, the OSError of connect is caught by nobody
ConnectFailed_NoCatch(outcome) ==
    Uncaught(outcome) /\ UNCHANGED <<backoff, out>>

\* mutant: a bare except, every failure of connect is retried
ConnectFailed_CatchAll(outcome) == ExceptOSError

\* what a step of connect does when it does not succeed: an OSError is
\* caught by wait_for_change, anything else is caught by nobody
ConnectFailed(outcome) ==
    IF outcome = "OSError"
    THEN ExceptOSError
    ELSE Uncaught(outcome) /\ UNCHANGED <<backoff, out>>

\* connect: the class and the arguments of imapclass(host=..., port=...)
OpenArgs(cfg) ==
    << IF cfg.encryption # "IMAPS" THEN "IMAP4" ELSE "IMAP4_SSL",
       cfg.host, cfg.port >>

\* mutant: the STARTTLS upgrade is skipped
AfterOpen_SkipStartTLS(encryption) == "login"

\* connect: what follows the construction of the client
AfterOpen(encryption) ==
    IF encryption = "STARTTLS" THEN "starttls" ELSE "login"

\* mutant: the two arguments of login change places
LoginArgs_Swapped(cfg) == <<cfg.password, cfg.username>>

\* connect: the arguments of client.login
LoginArgs(cfg) == <<cfg.username, cfg.password>>

\* connect: imapclass(host=..., port=...); the constructor shuts its
\* socket down itself when it fails
Open ==
    /\ pc = "open"
    /\ attempts' = Count(attempts)
    /\ \E outcome \in StepOutcomes :
        /\ wire' = <<Sent("OPEN", OpenArgs(config), outcome)>>
        /\ IF outcome = "ok"
           THEN /\ unclosed' = Count(unclosed)
                /\ pc' = AfterOpen(config.encryption)
                /\ UNCHANGED <<backoff, out, exc, exitCode>>
           ELSE /\ ConnectFailed(outcome)
                /\ UNCHANGED unclosed
    /\ UNCHANGED <<parser, process, cmdRuns, calls, result, sleeps, typ, selects>>

\* connect: client.starttls(), only when the encryption is STARTTLS
StartTLS ==
    /\ pc = "starttls"
    /\ \E outcome \in StepOutcomes :
        /\ wire' = Append(wire, Sent("STARTTLS", <<>>, outcome))
        /\ IF outcome = "ok"
           THEN /\ pc' = "login"
                /\ UNCHANGED <<backoff, out, exc, exitCode, unclosed>>
           ELSE /\ ConnectFailed(outcome)
                /\ unclosed' \in Abandoned(unclosed)
    /\ UNCHANGED << parser, process, cmdRuns, calls, result, sleeps,
                    attempts, typ, selects >>

\* connect: client.login(username, password); on success connect
\* returns, backoff is reset and "connected" is printed
Login ==
    /\ pc = "login"
    /\ \E outcome \in StepOutcomes :
        /\ wire' = Append(wire, Sent("LOGIN", LoginArgs(config), outcome))
        /\ IF outcome = "ok"
           THEN /\ backoff' = 0
                /\ out' = Append(out, Line("stdout", "connected", 0))
                /\ pc' = "notify"
                /\ UNCHANGED <<exc, exitCode, unclosed>>
           ELSE /\ ConnectFailed(outcome)
                /\ unclosed' \in Abandoned(unclosed)
    /\ UNCHANGED << parser, process, cmdRuns, calls, result, sleeps,
                    attempts, typ, selects >>

\* client._simple_command("NOTIFY SET", ...): outside the try, the
\* response type is stored and never looked at
NotifySet ==
    /\ pc = "notify"
    /\ \E outcome \in NotifyOutcomes :
        /\ wire' = Append(wire, Sent("NOTIFY SET", <<>>, outcome))
        /\ IF outcome \in {"OK", "NO"}
           THEN /\ typ' = outcome
                /\ pc' = "select"
                /\ UNCHANGED <<exc, exitCode>>
           ELSE /\ Uncaught(outcome)
                /\ UNCHANGED typ
    /\ UNCHANGED << parser, process, cmdRuns, calls, result, backoff, sleeps, attempts,
                    unclosed, selects, out >>

\* mutant: no break, the loop goes round again
AfterWait_Continue == "sleep"

\* where the loop goes once the outcome is reported: break
AfterWait == "done"

\* mutant: readiness at the very instant of the timeout still counts
SelectRlist_Inclusive(ready, timeout) ==
    IF ready # <<>> /\ ready[1] <= timeout THEN <<"socket">> ELSE <<>>

\* rlist of select.select([socket], [], [], timeout) when the socket
\* becomes readable at `ready`
SelectRlist(ready, timeout) ==
    IF ready # <<>> /\ ready[1] < timeout THEN <<"socket">> ELSE <<>>

\* select.select, the report of its outcome, break, and the return of
\* main: the interpreter exits with 0
Select ==
    /\ pc = "select"
    /\ \/ \E ready \in ReadyTimes :
            LET rlist == SelectRlist(ready, SelectTimeout)
            IN  /\ selects' = Append(selects, [ready |-> ready, rlist |-> rlist])
                /\ out' = Append(out,
                            IF Len(rlist) # 0
                            THEN Line("stdout", "Got change", 0)
                            ELSE Line("stdout", "Timeout", 0))
                /\ pc' = AfterWait
                /\ exitCode' = <<0>>
                /\ UNCHANGED exc
       \/ /\ Uncaught("OSError")
          /\ UNCHANGED <<selects, out>>
    /\ UNCHANGED << parser, process, cmdRuns, calls, result, backoff, sleeps, attempts,
                    wire, unclosed, typ >>

Next ==
    \/ Main
    \/ Sleep
    \/ Open
    \/ StartTLS
    \/ Login
    \/ NotifySet
    \/ Select

Spec == Init /\ [][Next]_vars

(* ------------------------------------------------------------------ *)
(* The loop without a bound on its attempts                            *)
(* ------------------------------------------------------------------ *)

\* configurations that load: one for each encryption
FairParsers ==
    { [DEFAULT |-> <<>>, imap |-> s] :
        s \in { [host |-> <<"h">>, username |-> <<"u">>, password |-> <<"s">>],
                [host |-> <<"h">>, username |-> <<"u">>, password |-> <<"s">>,
                 imaps |-> sTrue],
                [host |-> <<"h">>, username |-> <<"u">>, password |-> <<"s">>,
                 starttls |-> sFalse] } }

FairInit == Init /\ parser \in FairParsers

\* time.sleep(backoff) once the recorded history is full: the loop
\* goes on, sleeps, attempts and the retry lines are no longer counted
SleepAgain ==
    /\ pc = "sleep"
    /\ Len(sleeps) >= MaxAttempts
    /\ pc' = "open"
    /\ UNCHANGED << parser, process, cmdRuns, calls, result, backoff, sleeps,
                    attempts, wire, unclosed, typ, selects, out, exc,
                    exitCode >>

\* the step did not end in an imaplib.IMAP4.error
NoProtocolError == exc' # "IMAP4.error"

\* the step of connect succeeded
StepOk == Last(wire').outcome = "ok"

NextFair ==
    \/ Main
    \/ Sleep
    \/ SleepAgain
    \/ Open /\ NoProtocolError
    \/ StartTLS /\ NoProtocolError
    \/ Login /\ NoProtocolError
    \/ NotifySet /\ NoProtocolError
    \/ Select

\* the process does not stop while it can take a step, and no step of
\* connect fails with OSError for ever
FairSpec ==
    /\ FairInit
    /\ [][NextFair]_vars
    /\ WF_vars(NextFair)
    /\ SF_vars(Open /\ StepOk)
    /\ SF_vars(StartTLS /\ StepOk)
    /\ SF_vars(Login /\ StepOk)

(* ------------------------------------------------------------------ *)
(* Vocabulary of the properties                                        *)
(* ------------------------------------------------------------------ *)

\* the [imap] section of the configuration file, once main has read it
imap == parser["imap"]

Has(key) == key \in DOMAIN imap

\* the key is there and its value is not the empty string
NonEmpty(key) == Has(key) /\ imap[key] # <<>>

Called(f) == calls[f] # NotCalled

\* the steps connect is made of
ConnectCmds == {"OPEN", "STARTTLS", "LOGIN"}

\* the last step on the wire belongs to connect and ended in `outcome`
ConnectEndedIn(outcome) ==
    /\ wire # <<>>
    /\ Last(wire).cmd \in ConnectCmds
    /\ Last(wire).outcome = outcome

Outcomes == {"Got change", "Timeout"}

OutcomeLines == {i \in DOMAIN out : out[i].text \in Outcomes}

(* ------------------------------------------------------------------ *)
(* C1                                                                  *)
(* ------------------------------------------------------------------ *)

BackoffTable == <<0, 2, 4, 8, 16, 32, 64, 120>>

\* C1: the i-th sleep of wait_for_change, every earlier attempt having
\* failed with OSError, lasts 0, 2, 4, 8, 16, 32, 64, 120, 120, ...
\* seconds, and after a successful connect backoff is 0.
C1_BackoffSequence ==
    /\ \A i \in DOMAIN sleeps :
        sleeps[i] = IF i <= Len(BackoffTable) THEN BackoffTable[i] ELSE 120
    /\ pc \in {"notify", "select", "done"} => backoff = 0

\* ten attempts in a row failed: the delay has sat at its ceiling
C1_Witness ==
    /\ Len(sleeps) >= 10
    /\ pc = "sleep"
    /\ backoff = 120

(* ------------------------------------------------------------------ *)
(* C2                                                                  *)
(* ------------------------------------------------------------------ *)

\* C2 as stated: no OSError raised after the configuration is loaded
\* ever ends the process.
C2_OSErrorNeverFatal == exc # "OSError"

\* C2, amended: an OSError raised by a step of connect (open, STARTTLS,
\* login) leaves the process alive, backed off and on its way to a new
\* attempt; an OSError that ends the process was raised by NOTIFY SET or
\* by select, after connect had returned.
C2_ConnectOSErrorRetried ==
    /\ ConnectEndedIn("OSError") =>
          /\ pc \in {"sleep", "open"}
          /\ exc = "none" /\ exitCode = <<>>
          /\ backoff >= 2
          /\ Last(out).text = "Could not connect to server"
    /\ exc = "OSError" =>
          /\ wire # <<>> /\ Last(wire).cmd = "NOTIFY SET"
          /\ \A i \in DOMAIN wire :
                wire[i].cmd \in ConnectCmds => wire[i].outcome = "ok"

\* login failed with an OSError and the loop is about to connect again
C2_Witness ==
    /\ ConnectEndedIn("OSError")
    /\ Last(wire).cmd = "LOGIN"
    /\ pc = "open"

(* ------------------------------------------------------------------ *)
(* C3                                                                  *)
(* ------------------------------------------------------------------ *)

\* C3: a failure of connect that is not an OSError ends the process at
\* once: uncaught, exit status 1, backoff still what was slept before
\* that attempt, no retry logged for it, no further sleep or attempt.
C3_NonOSErrorFatal ==
    ConnectEndedIn("IMAP4.error") =>
        /\ pc = "crashed"
        /\ exc = "IMAP4.error"
        /\ exitCode = <<1>>
        /\ backoff = Last(sleeps)
        /\ attempts = Len(sleeps)
        /\ Cardinality({i \in DOMAIN out :
                          out[i].text = "Could not connect to server"})
              = Len(sleeps) - 1

\* the server rejected the login on the third attempt
C3_Witness ==
    /\ ConnectEndedIn("IMAP4.error")
    /\ Last(wire).cmd = "LOGIN"
    /\ Len(sleeps) = 3

(* ------------------------------------------------------------------ *)
(* C4                                                                  *)
(* ------------------------------------------------------------------ *)

C5_WaitOutcome ==
    \A i \in DOMAIN selects :
        LET readable == /\ selects[i].ready # <<>>
                        /\ selects[i].ready[1] < 900
        IN  /\ Cardinality(OutcomeLines) = 1
            /\ Last(out).text = "Got change" <=> readable
            /\ Last(out).text = "Timeout" <=> ~readable

\* the socket became readable in the last second before the timeout
C5_Witness ==
    /\ pc = "done"
    /\ selects[1].ready = <<899>>
    /\ Last(out).text = "Got change"

(* ------------------------------------------------------------------ *)
(* C6                                                                  *)
(* ------------------------------------------------------------------ *)

\* a configuration was produced from a section with neither TLS flag
\* and no port
NoTlsFlagsNoPort ==
    /\ result.ok
    /\ ~Has("imaps") /\ ~Has("starttls") /\ ~Has("port")

\* C6 as stated: with neither imaps nor starttls in the configuration
\* the mode is NONE and the default port is 143.
C6_NoFlagsIsNone ==
    NoTlsFlagsNoPort =>
        config.encryption = "NONE" /\ config.port = 143

\* C6, amended: with neither imaps nor starttls in the configuration
\* the mode is STARTTLS (starttls falls back to `not imaps`) and the
\* default port is 143.
C6_NoFlagsIsStartTLS ==
    NoTlsFlagsNoPort =>
        /\ calls.get_encryption = Ok("STARTTLS")
        /\ config.encryption = "STARTTLS"
        /\ config.port = 143

\* host, username and a password, no TLS flag, no port: loaded
C6_Witness ==
    /\ NoTlsFlagsNoPort
    /\ pc = "sleep"
    /\ imap.host = <<"h">> /\ imap.username = <<"u">>
    /\ imap.password = <<"s">>

(* ------------------------------------------------------------------ *)
(* C7                                                                  *)
(* ------------------------------------------------------------------ *)

\* both flags are absent or spelled true / false
FlagsWellFormed ==
    /\ Has("imaps") => imap.imaps \in {sTrue, sFalse}
    /\ Has("starttls") => imap.starttls \in {sTrue, sFalse}

ImapsOn == Has("imaps") /\ imap.imaps = sTrue

StartTlsOn == IF Has("starttls") THEN imap.starttls = sTrue ELSE ~ImapsOn

\* C7: for imaps and starttls each absent, true or false, with an
\* absent starttls standing for `not imaps`, get_encryption raises
\* ImapError exactly when both are on and otherwise returns IMAPS if
\* imaps is on, else STARTTLS if starttls is on, else NONE.
C7_EncryptionMode ==
    Called("get_encryption") /\ FlagsWellFormed =>
        calls.get_encryption =
            IF ImapsOn /\ StartTlsOn THEN Raise("ImapError")
            ELSE IF ImapsOn THEN Ok("IMAPS")
            ELSE IF StartTlsOn THEN Ok("STARTTLS")
            ELSE Ok("NONE")

\* imaps = true with starttls = true was refused
C7_Witness ==
    /\ Called("get_encryption")
    /\ ImapsOn /\ Has("starttls") /\ StartTlsOn
    /\ pc = "crashed" /\ exc = "ImapError"

(* ------------------------------------------------------------------ *)
(* C8                                                                  *)
(* ------------------------------------------------------------------ *)

C9_BadPortIsImapError ==
    Called("get_port") /\ Has("port") /\ ~ParseInt(imap.port).ok =>
        calls.get_port = Raise("ImapError")

(* ------------------------------------------------------------------ *)
(* C10                                                                 *)
(* ------------------------------------------------------------------ *)

\* C10 as stated: get_password raises ConfigError whenever both keys
\* are in the section and whenever neither is, and returns a secret
\* only when exactly one of them is.
C10_PresentKeys ==
    Called("get_password") =>
        /\ Has("password") /\ Has("password_command") =>
              calls.get_password = Raise("ConfigError")
        /\ ~Has("password") /\ ~Has("password_command") =>
              calls.get_password = Raise("ConfigError")
        /\ calls.get_password.ok =>
              Has("password") # Has("password_command")

\* C10, amended: get_password raises ConfigError whenever both keys
\* have a non-empty value and whenever neither has one, and returns a
\* secret only when exactly one of them has a non-empty value.
C10_NonEmptyKeys ==
    Called("get_password") =>
        /\ NonEmpty("password") /\ NonEmpty("password_command") =>
              calls.get_password = Raise("ConfigError")
        /\ ~NonEmpty("password") /\ ~NonEmpty("password_command") =>
              calls.get_password = Raise("ConfigError")
        /\ calls.get_password.ok =>
              NonEmpty("password") # NonEmpty("password_command")

\* a password and a password command together were refused, and the
\* command was not run
C10_Witness ==
    /\ Called("get_password")
    /\ NonEmpty("password") /\ NonEmpty("password_command")
    /\ pc = "exit" /\ exitCode = <<1>>
    /\ process = <<>>

(* ------------------------------------------------------------------ *)
(* C11                                                                 *)
(* ------------------------------------------------------------------ *)

\* C11: every Configuration read_configuration returns has a non-empty
\* password, whether it was given literally or printed by a password
\* command that exited with 0.
C11_PasswordNonEmpty ==
    result.ok => config.password # <<>>

(* ------------------------------------------------------------------ *)
(* C12                                                                 *)
(* ------------------------------------------------------------------ *)

\* C12: when read_configuration raised ConfigError, main has written
\* the message to standard error and the exit status is 1.
C12_ConfigErrorOnStderr ==
    result = Raise("ConfigError") =>
        /\ out # <<>>
        /\ Last(out).text = "Error reading configuration"
        /\ Last(out).stream = "stderr"
        /\ exitCode = <<1>>

(* ------------------------------------------------------------------ *)
(* C13                                                                 *)
(* ------------------------------------------------------------------ *)

\* C13: unless read_configuration returned a Configuration nothing is
\* slept and nothing is connected: the process is over (exit status 1)
\* as soon as main has seen the failure, whatever its kind.
C13_NoRetryOfConfigFailure ==
    ~result.ok =>
        /\ sleeps = <<>> /\ attempts = 0 /\ wire = <<>>
        /\ pc \in {"main", "exit", "crashed"}
        /\ pc # "main" =>
              /\ exitCode = <<1>>
              /\ pc = "exit" <=> result.exc = "ConfigError"
              /\ pc = "crashed" => exc = result.exc

\* no password and no password command: refused, nothing attempted
C13_Witness ==
    /\ pc = "exit"
    /\ calls.get_password = Raise("ConfigError")
    /\ sleeps = <<>> /\ attempts = 0

(* ------------------------------------------------------------------ *)
(* C14                                                                 *)
(* ------------------------------------------------------------------ *)

\* C14: no session is left unclosed when the process has ended, and no
\* connection attempt starts while the session of a failed attempt is
\* still open.
C14_SessionsClosed ==
    /\ pc \in {"done", "exit", "crashed"} => unclosed = 0
    /\ pc \in {"sleep", "open"} => unclosed = 0

(* ------------------------------------------------------------------ *)
(* C15                                                                 *)
(* ------------------------------------------------------------------ *)

\* C15: on every connection, under STARTTLS the login is sent only
\* after the STARTTLS upgrade succeeded on it, NOTIFY SET is sent only
\* after the login succeeded on it, and the readable wait begins only
\* after NOTIFY SET was sent on it.
C15_StepOrder ==
    /\ \A i \in DOMAIN wire :
        /\ wire[i].cmd = "LOGIN" /\ config.encryption = "STARTTLS" =>
              \E j \in 1..(i - 1) :
                  wire[j].cmd = "STARTTLS" /\ wire[j].outcome = "ok"
        /\ wire[i].cmd = "STARTTLS" => config.encryption = "STARTTLS"
        /\ wire[i].cmd = "NOTIFY SET" =>
              \E j \in 1..(i - 1) :
                  wire[j].cmd = "LOGIN" /\ wire[j].outcome = "ok"
        /\ i > 1 => wire[1].cmd = "OPEN" /\ wire[1].outcome = "ok"
    /\ pc = "select" \/ selects # <<>> =>
          /\ wire # <<>>
          /\ Last(wire).cmd = "NOTIFY SET"

\* a STARTTLS connection about to wait for the socket
C15_Witness ==
    /\ pc = "select"
    /\ config.encryption = "STARTTLS"
    /\ Len(wire) = 4

(* ------------------------------------------------------------------ *)
(* C16                                                                 *)
(* ------------------------------------------------------------------ *)

RetryLines ==
    {i \in DOMAIN out : out[i].text = "Could not connect to server"}

\* C16: the i-th failed attempt is logged, with the backoff just
\* computed, before the next sleep, and that sleep lasts what was
\* logged; after two refusals and a success the log is: retry in 2,
\* retry in 4, connected, and backoff is 0 again.
C16_RetryLog ==
    /\ \A j \in 2..Len(sleeps) :
          /\ (j - 1) \in RetryLines
          /\ out[j - 1].arg = sleeps[j]
    /\ \A i \in RetryLines : i <= Len(sleeps)
    /\ pc = "sleep" /\ out # <<>> =>
          /\ Len(out) \in RetryLines
          /\ Last(out).arg = backoff
    /\ pc = "notify" /\ attempts = 3 =>
          /\ out = << Line("stderr", "Could not connect to server", 2),
                      Line("stderr", "Could not connect to server", 4),
                      Line("stdout", "connected", 0) >>
          /\ backoff = 0

\* refused twice, then connected
C16_Witness ==
    /\ pc = "notify"
    /\ attempts = 3
    /\ Cardinality(RetryLines) = 2

(* ------------------------------------------------------------------ *)
(* C18                                                                 *)
(* ------------------------------------------------------------------ *)

\* what holds of the secret and of the arguments of every attempt
SecretResolvedAtLoad ==
    /\ cmdRuns <= 1
    /\ cmdRuns = Len(process)
    /\ pc = "main" => cmdRuns = 0
    /\ result.ok => config.password = calls.get_password.val
    /\ \A i \in DOMAIN wire :
        /\ wire[i].cmd = "OPEN" =>
              wire[i].args =
                  << IF config.encryption = "IMAPS"
                     THEN "IMAP4_SSL" ELSE "IMAP4",
                     config.host, config.port >>
        /\ wire[i].cmd = "LOGIN" =>
              wire[i].args = <<config.username, config.password>>

\* C18: the password command is run at most once, by main before the
\* first attempt; afterwards neither the Configuration nor the secret
\* changes, and every attempt connects and logs in with its values.
C18_SecretResolvedOnce ==
    /\ []SecretResolvedAtLoad
    /\ [][pc # "main" =>
            /\ result' = result
            /\ cmdRuns' = cmdRuns
            /\ process' = process]_vars

\* the third attempt logs in with the output of the password command
C18_Witness ==
    /\ cmdRuns = 1
    /\ attempts = 3
    /\ Last(wire).cmd = "LOGIN"
    /\ Last(wire).args = <<config.username, RStrip(process[1].stdout)>>
    /\ config.password # <<>>

(* ------------------------------------------------------------------ *)
(* C19                                                                 *)
(* ------------------------------------------------------------------ *)

\* C19: the readable wait begins, and an outcome is reported, only
\* when the server answered OK to NOTIFY SET.
C19_WaitOnlyAfterOK ==
    /\ pc = "select" => typ = "OK"
    /\ selects # <<>> \/ OutcomeLines # {} => typ = "OK"

(* ------------------------------------------------------------------ *)
(* C17                                                                 *)
(* ------------------------------------------------------------------ *)

Ended == pc \in {"done", "exit", "crashed"}

\* C17 as stated: with no failure other than OSError, the process has
\* reported exactly one outcome when it has ended.
C17_EndsWithOneOutcome ==
    Ended => Cardinality(OutcomeLines) = 1

\* C17, amended: with no failure other than OSError and no step of
\* connect failing for ever, the process ends; when it ends normally it
\* has reported exactly one outcome, otherwise it was ended, with no
\* outcome reported, by an OSError of NOTIFY SET or of select; and
\* while it is between two attempts it can always make the next one.
C17_Terminates ==
    /\ <>Ended
    /\ [](pc = "done" => Cardinality(OutcomeLines) = 1)
    /\ [](pc \in {"exit", "crashed"} =>
            /\ exc = "OSError"
            /\ OutcomeLines = {}
            /\ Last(wire).cmd = "NOTIFY SET")
    /\ [](pc = "sleep" => ENABLED (Sleep \/ SleepAgain))

\* an outcome reported after more failures than the history records
C17_Witness ==
    /\ pc = "done"
    /\ Cardinality(OutcomeLines) = 1
    /\ Len(sleeps) = MaxAttempts
    /\ Len(out) = MaxAttempts + 2

====
